---- MODULE Spec2Model ----
(***************************************************************************)
(* A model of dicontainer's registration core: ServiceDescriptor (the     *)
(* validating constructor and its named builders) and ServiceCollection   *)
(* (the MutableSequence of descriptors with its read-only latch and the    *)
(* try_add / replace / remove_all protocol), src/src/dicontainer/.         *)
(*                                                                         *)
(* Python objects are records tagged with a `kind`; a raised exception is  *)
(* the class name in the `raised` field of a call's outcome ("" when the   *)
(* call returned).  ServiceDescriptor defines no __eq__, so two            *)
(* descriptors are equal only when they are the same object: the `id`      *)
(* field is the object's identity.                                         *)
(***************************************************************************)
EXTENDS Integers, Sequences, FiniteSets, TLC

(* ------------------------------ bounds -------------------------------- *)

\* Longest descriptor list a call may leave behind.
MaxLen == 3

\* Longest iterable handed to extend, +=, try_add_many.
MaxBatch == 2

(* --------------------------- Python values ---------------------------- *)

None == [kind |-> "NoneType"]

PyInt(n) == [kind |-> "int", v |-> n]

PyBool(b) == [kind |-> "bool", v |-> b]

PyStr(s) == [kind |-> "str", v |-> s]

PyList(s) == [kind |-> "list", v |-> s]

PySlice(lo, hi) == [kind |-> "slice", start |-> lo, stop |-> hi]

PyType(n) == [kind |-> "type", name |-> n]

PyObject(t, n) == [kind |-> "object", type |-> t, name |-> n]

\* A function object: its parameter names, and its return annotation
\* (None stands for inspect.Signature.empty).
PyFunction(n, ps, ret) == [kind |-> "function", name |-> n, params |-> ps, returns |-> ret]

\* functools.partial(func, **{param: None}).
partial(func, param) == [kind |-> "partial", func |-> func, bound |-> param]

\* bool(v): None, 0, "" and an empty list are false, every other object true.
Truthy(v) ==
    CASE v.kind = "NoneType" -> FALSE
      [] v.kind = "int" -> v.v # 0
      [] v.kind = "bool" -> v.v
      [] v.kind = "str" -> v.v # ""
      [] v.kind = "list" -> v.v # <<>>
      [] OTHER -> TRUE

\* `a or b`
Or(a, b) == IF Truthy(a) THEN a ELSE b

\* callable(v)
callable(v) == v.kind \in {"type", "function", "partial"}

\* inspect.signature(f).parameters, by name; a partial hides the bound
\* keyword's positional slot only when it is the last one, which is the only
\* use here, and the classes in play take no constructor argument.
signature_params(f) ==
    IF f.kind = "partial"
    THEN SelectSeq(f.func.params, LAMBDA p : p # f.bound)
    ELSE IF f.kind = "type" THEN <<>>
    ELSE f.params

\* The outcome of a call of a function: the exception class raised ("" when
\* it returned) and the value returned.
Return(v) == [raised |-> "", value |-> v]

Raise(exc) == [raised |-> exc, value |-> None]

(* -------------------------- ServiceLifetime --------------------------- *)

SINGLETON == [kind |-> "ServiceLifetime", name |-> "SINGLETON", value |-> 0]

SCOPED == [kind |-> "ServiceLifetime", name |-> "SCOPED", value |-> 1]

TRANSIENT == [kind |-> "ServiceLifetime", name |-> "TRANSIENT", value |-> 2]

ServiceLifetime == {SINGLETON, SCOPED, TRANSIENT}

(* ------------------------------ util.py ------------------------------- *)

\* is_type(value, expected_type) for a plain class: isinstance.
is_type(value, expected_type) == value.kind = expected_type

\* Ensure.not_none: the exception it raises, "" when it passes.
Ensure_not_none(value) == IF value = None THEN "ValueError" ELSE ""

\* Ensure.is_type: the exception it raises, "" when it passes.
Ensure_is_type(value, expected_type) ==
    IF ~is_type(value, expected_type) THEN "TypeError" ELSE ""

(* -------------------------- ServiceDescriptor ------------------------- *)

\* ServiceDescriptor.__init__; `id` is the identity of the object created.
ServiceDescriptor(id, service_type, lifetime, instance, implementation_type, factory, service_key) ==
    IF Ensure_not_none(service_type) # "" THEN Raise(Ensure_not_none(service_type))
    ELSE IF ~Truthy(instance) /\ ~Truthy(implementation_type) /\ ~Truthy(factory)
    THEN Raise("ValueError")
    ELSE IF ~Truthy(lifetime) /\ ~Truthy(instance) THEN Raise("ValueError")
    ELSE LET lt == IF ~Truthy(lifetime) THEN SINGLETON ELSE lifetime
             params == signature_params(factory)
             keyed_factory ==
                 IF Truthy(factory) /\ Len(params) = 2 /\ ~Truthy(service_key)
                 THEN partial(factory, params[2])
                 ELSE None
         IN  IF Truthy(instance) /\ lt # SINGLETON THEN Raise("ValueError")
             ELSE IF Truthy(instance) /\ (Truthy(implementation_type) \/ Truthy(factory))
             THEN Raise("ValueError")
             ELSE IF Truthy(implementation_type) /\ Truthy(factory) THEN Raise("ValueError")
             ELSE IF Truthy(factory) /\ ~callable(factory) THEN Raise("TypeError")
             ELSE IF Truthy(factory) /\ Len(params) = 1 /\ Truthy(service_key)
             THEN Raise("ValueError")
             ELSE IF Truthy(factory) /\ ~(Len(params) = 2 /\ ~Truthy(service_key))
                     /\ Len(params) \notin {1, 2}
             THEN Raise("ValueError")
             ELSE Return([kind |-> "ServiceDescriptor",
                          id |-> id,
                          _service_type |-> service_type,
                          _lifetime |-> lt,
                          _implementation_instance |-> instance,
                          _implementation_type |-> implementation_type,
                          _implementation_factory |-> Or(keyed_factory, factory),
                          _service_key |-> service_key])

\* ServiceDescriptor.service_type
service_type(d) == d._service_type

\* ServiceDescriptor.service_key
service_key(d) == d._service_key

\* is_keyed_service by the truth value of the key, as get_implementation_type
\* decides.
is_keyed_service_truthy(d) == Truthy(d._service_key)

\* ServiceDescriptor.is_keyed_service
is_keyed_service(d) == d._service_key # None

\* ServiceDescriptor.using_type
using_type(id, st, implementation_type, lifetime, key) ==
    ServiceDescriptor(id, st, lifetime, None, implementation_type, None, key)

\* ServiceDescriptor.using_instance
using_instance(id, st, instance, key) ==
    ServiceDescriptor(id, st, SINGLETON, instance, None, None, key)

\* ServiceDescriptor.using_factory
using_factory(id, st, factory, lifetime, key) ==
    ServiceDescriptor(id, st, lifetime, None, None, factory, key)

\* ServiceDescriptor.describe: neither branch taken returns None.
describe(id, service, implementation, lifetime, key) ==
    IF implementation.kind = "type"
    THEN using_type(id, service, implementation, lifetime, key)
    ELSE IF callable(implementation)
    THEN using_factory(id, service, implementation, lifetime, key)
    ELSE Return(None)

\* ServiceDescriptor.transient
transient(id, service, implementation) ==
    describe(id, service, implementation, TRANSIENT, None)

\* ServiceDescriptor.scoped
scoped(id, service, implementation) ==
    describe(id, service, implementation, SCOPED, None)

\* ServiceDescriptor.keyed_transient
keyed_transient(id, service, implementation, key) ==
    describe(id, service, implementation, TRANSIENT, key)

\* ServiceDescriptor.keyed_scoped
keyed_scoped(id, service, implementation, key) ==
    describe(id, service, implementation, SCOPED, key)

\* ServiceDescriptor.keyed_singleton
keyed_singleton(id, service, implementation, key) ==
    IF implementation # PyType("type") /\ ~callable(implementation)
    THEN using_instance(id, service, implementation, key)
    ELSE describe(id, service, implementation, SINGLETON, key)

\* ServiceDescriptor.singleton; `implementation is not type` compares with the
\* class `type` itself.
singleton(id, service, implementation) ==
    IF implementation # PyType("type") /\ ~callable(implementation)
    THEN using_instance(id, service, implementation, None)
    ELSE describe(id, service, implementation, SINGLETON, None)

\* type(v) for an instance.
type(v) ==
    CASE v.kind = "object" -> v.type
      [] v.kind = "function" -> PyType("function")
      [] v.kind = "partial" -> PyType("partial")
      [] v.kind = "type" -> PyType("type")
      [] OTHER -> PyType(v.kind)

\* ServiceDescriptor.implementation_instance
implementation_instance(d) ==
    IF is_keyed_service(d) THEN Return(None) ELSE Return(d._implementation_instance)

\* ServiceDescriptor.keyed_implementation_instance
keyed_implementation_instance(d) ==
    IF ~is_keyed_service(d) THEN Raise("RuntimeError")
    ELSE Return(d._implementation_instance)

\* ServiceDescriptor.implementation_type
implementation_type(d) ==
    IF is_keyed_service(d) THEN Return(None) ELSE Return(d._implementation_type)

\* ServiceDescriptor.keyed_implementation_type
keyed_implementation_type(d) ==
    IF ~is_keyed_service(d) THEN Raise("RuntimeError")
    ELSE Return(d._implementation_type)

\* ServiceDescriptor.implementation_factory
implementation_factory(d) ==
    IF is_keyed_service(d) THEN Return(None) ELSE Return(d._implementation_factory)

\* ServiceDescriptor.keyed_implementation_factory
keyed_implementation_factory(d) ==
    IF ~is_keyed_service(d) THEN Raise("RuntimeError")
    ELSE Return(d._implementation_factory)

\* A formatted string, as the labelled values it renders in their order: a
\* type stands for its __name__, a lifetime for its name, a factory for its
\* __name__ followed by str(inspect.signature(factory)), any other value for
\* its str().
formatted(fields) == [kind |-> "formatted", fields |-> fields]

\* ServiceDescriptor.__str__: functools.partial objects have no __name__.
__str__(d) ==
    LET lifetime == <<(<<"service_type", service_type(d)>>), (<<"lifetime", d._lifetime>>)>>
        keyed == lifetime \o <<(<<"service_key", service_key(d)>>)>>
    IN  IF is_keyed_service(d)
        THEN IF Truthy(keyed_implementation_type(d).value)
             THEN Return(formatted(keyed \o
                      <<(<<"implementation_type", keyed_implementation_type(d).value>>)>>))
             ELSE IF Truthy(keyed_implementation_factory(d).value)
             THEN IF keyed_implementation_factory(d).value.kind = "partial"
                  THEN Raise("AttributeError")
                  ELSE Return(formatted(keyed \o
                           <<(<<"implementation_factory",
                                keyed_implementation_factory(d).value>>)>>))
             ELSE Return(formatted(keyed \o
                      <<(<<"implementation_instance",
                           keyed_implementation_instance(d).value>>)>>))
        ELSE IF Truthy(implementation_type(d).value)
             THEN Return(formatted(lifetime \o
                      <<(<<"implementation_type", implementation_type(d).value>>)>>))
             ELSE IF Truthy(implementation_factory(d).value)
             THEN IF implementation_factory(d).value.kind = "partial"
                  THEN Raise("AttributeError")
                  ELSE Return(formatted(lifetime \o
                           <<(<<"implementation_factory",
                                implementation_factory(d).value>>)>>))
             ELSE Return(formatted(lifetime \o
                      <<(<<"implementation_instance", implementation_instance(d).value>>)>>))

\* ServiceDescriptor._get_factory_implementation_type: the return annotation
\* of the factory (a partial keeps the annotation of the function it wraps),
\* asserted to be present and to be a type.
_get_factory_implementation_type(factory) ==
    LET factory_return_type ==
            IF factory.kind = "partial" THEN factory.func.returns ELSE factory.returns
    IN  IF factory_return_type = None THEN Raise("AssertionError")
        ELSE IF factory_return_type.kind # "type" THEN Raise("AssertionError")
        ELSE Return(factory_return_type)

\* ServiceDescriptor.get_implementation_type: `if not self.service_key` picks
\* the accessor group by the truth value of the key.
get_implementation_type(d) ==
    IF ~Truthy(service_key(d))
    THEN IF Truthy(implementation_type(d).value) THEN implementation_type(d)
         ELSE IF Truthy(implementation_instance(d).value)
         THEN Return(type(implementation_instance(d).value))
         ELSE IF Truthy(implementation_factory(d).value)
         THEN _get_factory_implementation_type(implementation_factory(d).value)
         ELSE Raise("ValueError")
    ELSE IF keyed_implementation_type(d).raised # "" THEN keyed_implementation_type(d)
         ELSE IF Truthy(keyed_implementation_type(d).value) THEN keyed_implementation_type(d)
         ELSE IF Truthy(keyed_implementation_instance(d).value)
         THEN Return(type(keyed_implementation_instance(d).value))
         ELSE IF Truthy(keyed_implementation_factory(d).value)
         THEN _get_factory_implementation_type(keyed_implementation_factory(d).value)
         ELSE Raise("ValueError")

\* factory(*args): a function is entered when it gets one argument for each
\* of its parameters; a partial passes its bound keyword on with None, which
\* the function refuses when the positional arguments reach that parameter.
\* The value returned is the record of the invocation of the function.
invoke(factory, args) ==
    LET func == IF factory.kind = "partial" THEN factory.func ELSE factory
        bound == IF factory.kind = "partial"
                 THEN {i \in 1..Len(func.params) : func.params[i] = factory.bound}
                 ELSE {}
        given == [i \in 1..Len(func.params) |->
                     IF i <= Len(args) THEN args[i] ELSE None]
    IN  IF factory.kind \notin {"function", "partial"} THEN Raise("TypeError")
        ELSE IF Len(args) > Len(func.params) THEN Raise("TypeError")
        ELSE IF \E i \in bound : i <= Len(args) THEN Raise("TypeError")
        ELSE IF \E i \in 1..Len(func.params) : i > Len(args) /\ i \notin bound
        THEN Raise("TypeError")
        ELSE Return([kind |-> "invocation", func |-> func.name, args |-> given])

(* ------------------------- the built-in list -------------------------- *)

\* A list index counted from the end when negative, as a 0-based position.
list_position(s, i) == IF i < 0 THEN i + Len(s) ELSE i

\* Whether s[i] exists.
list_has(s, i) == list_position(s, i) >= 0 /\ list_position(s, i) < Len(s)

\* s without the element at 0-based position k.
list_without(s, k) == SubSeq(s, 1, k) \o SubSeq(s, k + 2, Len(s))

\* list.insert(i, v): the position is clamped to 0..len.
list_insert(s, i, v) ==
    LET p == list_position(s, i)
        k == IF p < 0 THEN 0 ELSE IF p > Len(s) THEN Len(s) ELSE p
    IN  SubSeq(s, 1, k) \o <<v>> \o SubSeq(s, k + 1, Len(s))

\* The 0-based bounds [lo, hi) a slice start:stop (both >= 0) selects.
slice_lo(s, sl) == IF sl.start > Len(s) THEN Len(s) ELSE sl.start

slice_hi(s, sl) ==
    LET h == IF sl.stop > Len(s) THEN Len(s) ELSE sl.stop
    IN  IF h < slice_lo(s, sl) THEN slice_lo(s, sl) ELSE h

\* list(reversed(s))
list_reversed(s) == [i \in 1..Len(s) |-> s[Len(s) + 1 - i]]

\* The 1-based positions of the elements of s equal to v, lowest first.
list_find(s, v) == {i \in 1..Len(s) : s[i] = v}

Lowest(S) == CHOOSE i \in S : \A j \in S : i <= j

(* -------------------------- ServiceCollection ------------------------- *)

\* The collection object itself, as replace, remove_all and += return it.
SelfRef == [kind |-> "ServiceCollection"]

\* ServiceCollection.__init__
ServiceCollection == [_descriptors |-> <<>>, _readonly |-> FALSE]

\* The outcome of a method call: the collection afterwards, the exception
\* class raised ("" when it returned), and the value returned.
Done(self, v) == [self |-> self, raised |-> "", value |-> v]

Fail(self, exc) == [self |-> self, raised |-> exc, value |-> None]

\* ServiceCollection.is_readonly
is_readonly(self) == self._readonly

\* make_readonly written as a toggle.
make_readonly_toggle(self) == Done([self EXCEPT !._readonly = ~@], None)

\* ServiceCollection.make_readonly
make_readonly(self) == Done([self EXCEPT !._readonly = TRUE], None)

\* ServiceCollection._check_readonly: the exception it raises, "" when none.
_check_readonly(self) == IF self._readonly THEN "RuntimeError" ELSE ""

\* Ensure.all_in_iterable: class Ensure defines not_none and is_type only,
\* so the attribute lookup raises.
Ensure_all_in_iterable(values, expected_type) == "AttributeError"

\* ServiceCollection.__len__
__len__(self) == Done(self, PyInt(Len(self._descriptors)))

\* ServiceCollection.__contains__
__contains__(self, v) ==
    IF Ensure_not_none(v) # "" THEN Fail(self, Ensure_not_none(v))
    ELSE Done(self, PyBool(list_find(self._descriptors, v) # {}))

\* ServiceCollection.__iter__, run to the end.
__iter__(self) == Done(self, PyList(self._descriptors))

\* ServiceCollection.__getitem__
__getitem__(self, index) ==
    LET s == self._descriptors IN
    IF index.kind = "slice"
    THEN Done(self, PyList(SubSeq(s, slice_lo(s, index) + 1, slice_hi(s, index))))
    ELSE IF ~list_has(s, index.v) THEN Fail(self, "IndexError")
    ELSE Done(self, s[list_position(s, index.v) + 1])

\* insert without Ensure.is_type: whatever it is given goes into the list.
insert_unchecked(self, index, v) ==
    IF _check_readonly(self) # "" THEN Fail(self, _check_readonly(self))
    ELSE Done([self EXCEPT !._descriptors = list_insert(@, index.v, v)], None)

\* ServiceCollection.insert
insert(self, index, v) ==
    IF _check_readonly(self) # "" THEN Fail(self, _check_readonly(self))
    ELSE IF Ensure_is_type(v, "ServiceDescriptor") # ""
    THEN Fail(self, Ensure_is_type(v, "ServiceDescriptor"))
    ELSE Done([self EXCEPT !._descriptors = list_insert(@, index.v, v)], None)

\* ServiceCollection.__setitem__
__setitem__(self, index, v) ==
    LET s == self._descriptors IN
    IF _check_readonly(self) # "" THEN Fail(self, _check_readonly(self))
    ELSE IF index.kind = "int"
    THEN IF Ensure_is_type(v, "ServiceDescriptor") # ""
         THEN Fail(self, Ensure_is_type(v, "ServiceDescriptor"))
         ELSE IF ~list_has(s, index.v) THEN Fail(self, "IndexError")
         ELSE Done([self EXCEPT !._descriptors[list_position(s, index.v) + 1] = v], None)
    ELSE IF Ensure_all_in_iterable(v, "ServiceDescriptor") # ""
    THEN Fail(self, Ensure_all_in_iterable(v, "ServiceDescriptor"))
    ELSE IF v.kind # "list" THEN Fail(self, "TypeError")
    ELSE Done([self EXCEPT !._descriptors =
                   SubSeq(s, 1, slice_lo(s, index)) \o v.v
                   \o SubSeq(s, slice_hi(s, index) + 1, Len(s))], None)

\* ServiceCollection.__delitem__
__delitem__(self, index) ==
    LET s == self._descriptors IN
    IF _check_readonly(self) # "" THEN Fail(self, _check_readonly(self))
    ELSE IF index.kind = "slice"
    THEN Done([self EXCEPT !._descriptors =
                   SubSeq(s, 1, slice_lo(s, index))
                   \o SubSeq(s, slice_hi(s, index) + 1, Len(s))], None)
    ELSE IF ~list_has(s, index.v) THEN Fail(self, "IndexError")
    ELSE Done([self EXCEPT !._descriptors = list_without(s, list_position(s, index.v))], None)

\* append without its read-only check.
append_unchecked(self, v) ==
    IF Ensure_is_type(v, "ServiceDescriptor") # ""
    THEN Fail(self, Ensure_is_type(v, "ServiceDescriptor"))
    ELSE Done([self EXCEPT !._descriptors = Append(@, v)], None)

\* ServiceCollection.append
append(self, v) ==
    IF _check_readonly(self) # "" THEN Fail(self, _check_readonly(self))
    ELSE IF Ensure_is_type(v, "ServiceDescriptor") # ""
    THEN Fail(self, Ensure_is_type(v, "ServiceDescriptor"))
    ELSE Done([self EXCEPT !._descriptors = Append(@, v)], None)

\* ServiceCollection.clear
clear(self) ==
    IF _check_readonly(self) # "" THEN Fail(self, _check_readonly(self))
    ELSE Done([self EXCEPT !._descriptors = <<>>], None)

\* ServiceCollection.extend
extend(self, values) ==
    IF _check_readonly(self) # "" THEN Fail(self, _check_readonly(self))
    ELSE IF Ensure_all_in_iterable(values, "ServiceDescriptor") # ""
    THEN Fail(self, Ensure_all_in_iterable(values, "ServiceDescriptor"))
    ELSE IF values.kind # "list" THEN Fail(self, "TypeError")
    ELSE Done([self EXCEPT !._descriptors = @ \o values.v], None)

\* reverse without its read-only check.
reverse_unchecked(self) == Done([self EXCEPT !._descriptors = list_reversed(@)], None)

\* ServiceCollection.reverse
reverse(self) ==
    IF _check_readonly(self) # "" THEN Fail(self, _check_readonly(self))
    ELSE Done([self EXCEPT !._descriptors = list_reversed(@)], None)

\* ServiceCollection.pop
pop(self, index) ==
    LET s == self._descriptors IN
    IF _check_readonly(self) # "" THEN Fail(self, _check_readonly(self))
    ELSE IF ~list_has(s, index.v) THEN Fail(self, "IndexError")
    ELSE Done([self EXCEPT !._descriptors = list_without(s, list_position(s, index.v))],
              s[list_position(s, index.v) + 1])

\* ServiceCollection.remove
remove(self, v) ==
    LET s == self._descriptors IN
    IF _check_readonly(self) # "" THEN Fail(self, _check_readonly(self))
    ELSE IF Ensure_is_type(v, "ServiceDescriptor") # ""
    THEN Fail(self, Ensure_is_type(v, "ServiceDescriptor"))
    ELSE IF list_find(s, v) = {} THEN Fail(self, "ValueError")
    ELSE Done([self EXCEPT !._descriptors = list_without(s, Lowest(list_find(s, v)) - 1)], None)

\* ServiceCollection.__iadd__
__iadd__(self, values) ==
    IF _check_readonly(self) # "" THEN Fail(self, _check_readonly(self))
    ELSE IF Ensure_all_in_iterable(values, "ServiceDescriptor") # ""
    THEN Fail(self, Ensure_all_in_iterable(values, "ServiceDescriptor"))
    ELSE IF values.kind # "list" THEN Fail(self, "TypeError")
    ELSE Done([self EXCEPT !._descriptors = @ \o values.v], SelfRef)

\* The registration test on the service type alone.
same_service_type(d, descriptor) == service_type(d) = service_type(descriptor)

\* The registration test as equality of the descriptors, d == descriptor.
same_object(d, descriptor) == d = descriptor

\* The test both try_add and replace apply to an entry `d` of the collection:
\* d.service_type == descriptor.service_type and d.service_key == descriptor.service_key
same_registration(d, descriptor) ==
    /\ service_type(d) = service_type(descriptor)
    /\ service_key(d) = service_key(descriptor)

\* Reading descriptor.service_type or .service_key of an object that has none.
lacks_attributes(descriptor) == descriptor.kind # "ServiceDescriptor"

\* try_add with all() where the code has any().
try_add_all(self, descriptor) ==
    LET s == self._descriptors IN
    IF Ensure_not_none(descriptor) # "" THEN Fail(self, Ensure_not_none(descriptor))
    ELSE IF s # <<>> /\ lacks_attributes(descriptor) THEN Fail(self, "AttributeError")
    ELSE IF \A i \in 1..Len(s) : same_registration(s[i], descriptor) THEN Done(self, None)
    ELSE append(self, descriptor)

\* try_add that puts the descriptor in front of the existing entries.
try_add_in_front(self, descriptor) ==
    LET s == self._descriptors IN
    IF Ensure_not_none(descriptor) # "" THEN Fail(self, Ensure_not_none(descriptor))
    ELSE IF s # <<>> /\ lacks_attributes(descriptor) THEN Fail(self, "AttributeError")
    ELSE IF \E i \in 1..Len(s) : same_registration(s[i], descriptor) THEN Done(self, None)
    ELSE insert(self, PyInt(0), descriptor)

\* ServiceCollection.try_add
try_add(self, descriptor) ==
    LET s == self._descriptors IN
    IF Ensure_not_none(descriptor) # "" THEN Fail(self, Ensure_not_none(descriptor))
    ELSE IF s # <<>> /\ lacks_attributes(descriptor) THEN Fail(self, "AttributeError")
    ELSE IF \E i \in 1..Len(s) : same_registration(s[i], descriptor) THEN Done(self, None)
    ELSE append(self, descriptor)

\* ServiceCollection.try_add_many: the loop over `descriptors` from its
\* 1-based position i, which the first exception leaves.
RECURSIVE try_add_each(_, _, _)
try_add_each(self, descriptors, i) ==
    IF i > Len(descriptors) THEN Done(self, None)
    ELSE LET r == try_add(self, descriptors[i])
         IN  IF r.raised # "" THEN r ELSE try_add_each(r.self, descriptors, i + 1)

\* try_add_many that goes through `descriptors` from the last element to the
\* first.
try_add_many_backwards(self, descriptors) ==
    IF Ensure_not_none(descriptors) # "" THEN Fail(self, Ensure_not_none(descriptors))
    ELSE IF descriptors.kind # "list" THEN Fail(self, "TypeError")
    ELSE try_add_each(self, list_reversed(descriptors.v), 1)

\* ServiceCollection.try_add_many
try_add_many(self, descriptors) ==
    IF Ensure_not_none(descriptors) # "" THEN Fail(self, Ensure_not_none(descriptors))
    ELSE IF descriptors.kind # "list" THEN Fail(self, "TypeError")
    ELSE try_add_each(self, descriptors.v, 1)

\* The identity of the descriptor a method of the collection creates.  Two
\* calls with the same arguments create two objects with the same fields; no
\* caller holds a reference to either, so one identity stands for both.
created(method, service, implementation) == <<method, service, implementation>>

\* try_add_transient that appends its descriptor without asking try_add.
try_add_transient_append(self, service, implementation) ==
    LET descriptor == transient(created("try_add_transient", service, implementation),
                                service, Or(implementation, service))
    IN  IF descriptor.raised # "" THEN Fail(self, descriptor.raised)
        ELSE append(self, descriptor.value)

\* ServiceCollection.try_add_transient
try_add_transient(self, service, implementation) ==
    LET descriptor == transient(created("try_add_transient", service, implementation),
                                service, Or(implementation, service))
    IN  IF descriptor.raised # "" THEN Fail(self, descriptor.raised)
        ELSE try_add(self, descriptor.value)

\* ServiceCollection.try_add_scoped
try_add_scoped(self, service, implementation) ==
    LET descriptor == scoped(created("try_add_scoped", service, implementation),
                             service, Or(implementation, service))
    IN  IF descriptor.raised # "" THEN Fail(self, descriptor.raised)
        ELSE try_add(self, descriptor.value)

\* ServiceCollection.try_add_singleton
try_add_singleton(self, service, implementation) ==
    LET descriptor == singleton(created("try_add_singleton", service, implementation),
                                service, Or(implementation, service))
    IN  IF descriptor.raised # "" THEN Fail(self, descriptor.raised)
        ELSE try_add(self, descriptor.value)

\* _try_add_enumerable without its test of the implementation type: every
\* descriptor is let in.
indistinguishable_never(implementation, descriptor) == FALSE

\* `implementation_type is object or implementation_type is
\* descriptor.service_type` of _try_add_enumerable.
indistinguishable(implementation, descriptor) ==
    implementation = PyType("object") \/ implementation = service_type(descriptor)

\* The `for service in self` loop of _try_add_enumerable from 0-based
\* position i: the first entry with the descriptor's service type,
\* implementation type and key ends the call; short-circuit `and` asks an
\* entry for its implementation type only when its service type matched.
RECURSIVE _try_add_enumerable_from(_, _, _, _)
_try_add_enumerable_from(self, descriptor, impl, i) ==
    LET s == self._descriptors
        service == s[i + 1]
    IN  IF i >= Len(s) THEN append(self, descriptor)
        ELSE IF service_type(service) # service_type(descriptor)
        THEN _try_add_enumerable_from(self, descriptor, impl, i + 1)
        ELSE IF get_implementation_type(service).raised # ""
        THEN Fail(self, get_implementation_type(service).raised)
        ELSE IF /\ get_implementation_type(service).value = impl
                /\ service_key(service) = service_key(descriptor)
        THEN Done(self, None)
        ELSE _try_add_enumerable_from(self, descriptor, impl, i + 1)

\* ServiceCollection.try_add_enumerable._try_add_enumerable
_try_add_enumerable(self, descriptor) ==
    IF Ensure_is_type(descriptor, "ServiceDescriptor") # ""
    THEN Fail(self, Ensure_is_type(descriptor, "ServiceDescriptor"))
    ELSE IF get_implementation_type(descriptor).raised # ""
    THEN Fail(self, get_implementation_type(descriptor).raised)
    ELSE IF indistinguishable(get_implementation_type(descriptor).value, descriptor)
    THEN Fail(self, "ValueError")
    ELSE _try_add_enumerable_from(self, descriptor,
                                  get_implementation_type(descriptor).value, 0)

\* The `for d in descriptor` loop of try_add_enumerable from the 1-based
\* position i of the iterable; the first exception leaves it.
RECURSIVE try_add_enumerable_each(_, _, _)
try_add_enumerable_each(self, descriptors, i) ==
    IF i > Len(descriptors) THEN Done(self, None)
    ELSE LET r == _try_add_enumerable(self, descriptors[i])
         IN  IF r.raised # "" THEN r
             ELSE try_add_enumerable_each(r.self, descriptors, i + 1)

\* ServiceCollection.try_add_enumerable
try_add_enumerable(self, descriptor) ==
    IF Ensure_not_none(descriptor) # "" THEN Fail(self, Ensure_not_none(descriptor))
    ELSE IF descriptor.kind = "list"
    THEN try_add_enumerable_each(self, descriptor.v, 1)
    ELSE _try_add_enumerable(self, descriptor)

\* replace that overwrites the entry found where it stands.
replace_in_place(self, descriptor) ==
    LET s == self._descriptors
        found == {i \in 1..Len(s) : same_registration(s[i], descriptor)}
        stored == IF found = {} THEN append(self, descriptor)
                  ELSE __setitem__(self, PyInt(Lowest(found) - 1), descriptor)
    IN  IF Ensure_not_none(descriptor) # "" THEN Fail(self, Ensure_not_none(descriptor))
        ELSE IF s # <<>> /\ lacks_attributes(descriptor) THEN Fail(self, "AttributeError")
        ELSE IF stored.raised # "" THEN stored
        ELSE Done(stored.self, SelfRef)

\* replace that deletes every entry found, not the first only.
replace_all_found(self, descriptor) ==
    LET s == self._descriptors
        kept == SelectSeq(s, LAMBDA e : ~same_registration(e, descriptor))
    IN  IF Ensure_not_none(descriptor) # "" THEN Fail(self, Ensure_not_none(descriptor))
        ELSE IF s # <<>> /\ lacks_attributes(descriptor) THEN Fail(self, "AttributeError")
        ELSE IF _check_readonly(self) # "" THEN Fail(self, _check_readonly(self))
        ELSE IF Ensure_is_type(descriptor, "ServiceDescriptor") # ""
        THEN Fail(self, Ensure_is_type(descriptor, "ServiceDescriptor"))
        ELSE Done([self EXCEPT !._descriptors = Append(kept, descriptor)], SelfRef)

\* ServiceCollection.replace
replace(self, descriptor) ==
    LET s == self._descriptors
        found == {i \in 1..Len(s) : same_registration(s[i], descriptor)}
        deleted == __delitem__(self, PyInt(Lowest(found) - 1))
        appended == append(IF found = {} THEN self ELSE deleted.self, descriptor)
    IN  IF Ensure_not_none(descriptor) # "" THEN Fail(self, Ensure_not_none(descriptor))
        ELSE IF s # <<>> /\ lacks_attributes(descriptor) THEN Fail(self, "AttributeError")
        ELSE IF found # {} /\ deleted.raised # "" THEN deleted
        ELSE IF appended.raised # "" THEN appended
        ELSE Done(appended.self, SelfRef)

\* ServiceCollection.remove_all, the loop `for i, service in enumerate(self)`:
\* the list iterator and enumerate's counter both stand at 0-based position
\* i, and `del self[i]` shortens the list under the iterator.
RECURSIVE remove_all_from(_, _, _)
remove_all_from(self, st, i) ==
    LET s == self._descriptors
        deleted == __delitem__(self, PyInt(i))
    IN  IF i >= Len(s) THEN Done(self, SelfRef)
        ELSE IF service_type(s[i + 1]) = st /\ service_key(s[i + 1]) = None
        THEN IF deleted.raised # "" THEN deleted
             ELSE remove_all_from(deleted.self, st, i + 1)
        ELSE remove_all_from(self, st, i + 1)

\* A remove_all that looks at the service type alone and so takes the keyed
\* entries of the type away too.
remove_all_any_key(self, args) ==
    IF Len(args) # 1 THEN Fail(self, "TypeError")
    ELSE IF Ensure_not_none(args[1]) # "" THEN Fail(self, Ensure_not_none(args[1]))
    ELSE IF self._readonly /\ \E i \in 1..Len(self._descriptors) :
                                 service_type(self._descriptors[i]) = args[1]
    THEN Fail(self, "RuntimeError")
    ELSE Done([self EXCEPT !._descriptors =
                   SelectSeq(self._descriptors, LAMBDA e : service_type(e) # args[1])],
              SelfRef)

\* A remove_all whose loop ends after its first deletion.
remove_all_once(self, args) ==
    LET s == self._descriptors
        found == {i \in 1..Len(s) : service_type(s[i]) = args[1] /\ service_key(s[i]) = None}
    IN  IF Len(args) # 1 THEN Fail(self, "TypeError")
        ELSE IF Ensure_not_none(args[1]) # "" THEN Fail(self, Ensure_not_none(args[1]))
        ELSE IF found = {} THEN Done(self, SelfRef)
        ELSE IF __delitem__(self, PyInt(Lowest(found) - 1)).raised # ""
        THEN __delitem__(self, PyInt(Lowest(found) - 1))
        ELSE Done(__delitem__(self, PyInt(Lowest(found) - 1)).self, SelfRef)

\* ServiceCollection.remove_all(*args): the signature takes service_type only.
remove_all(self, args) ==
    IF Len(args) # 1 THEN Fail(self, "TypeError")
    ELSE IF Ensure_not_none(args[1]) # "" THEN Fail(self, Ensure_not_none(args[1]))
    ELSE remove_all_from(self, args[1], 0)

(* ------------------------- the objects in play ------------------------ *)

ServiceA == PyType("ServiceA")

ServiceB == PyType("ServiceB")

ImplA == PyType("ImplA")

ImplB == PyType("ImplB")

KeyA == PyStr("A")

KeyB == PyStr("B")

instance_a == PyObject(ImplA, "instance_a")

keyed_factory_a == PyFunction("keyed_factory_a", <<"provider", "key">>, ImplA)

\* The descriptors callers hold: two registrations of (ServiceA, None) that
\* are different objects, ServiceA under two keys, and another service type.
D1 == using_type(<<"D1">>, ServiceA, ImplA, SINGLETON, None).value

D2 == using_instance(<<"D2">>, ServiceA, instance_a, None).value

D3 == using_type(<<"D3">>, ServiceA, ImplA, SINGLETON, KeyA).value

D4 == using_type(<<"D4">>, ServiceB, ImplB, TRANSIENT, None).value

D5 == using_factory(<<"D5">>, ServiceA, keyed_factory_a, SCOPED, KeyB).value

Descriptors == {D1, D2, D3, D4, D5}

\* An object that is no ServiceDescriptor (the tests pass the class int).
NotADescriptor == PyType("int")

\* What a caller passes where a descriptor is expected.
Values == Descriptors \cup {None, NotADescriptor}

\* What a caller passes where a service type is expected.
Types == {ServiceA, ServiceB, None}

Keys == {None, KeyA, KeyB}

factory_a == PyFunction("factory_a", <<"provider">>, ImplA)

\* An instance that is not None and tests false.
empty_instance == PyStr("")

\* What a caller passes to try_add_* as implementation.
Implementations == {None, ImplA, factory_a, instance_a, empty_instance}

\* Integer indexes: in range, out of range, counted from the end.
Indexes == {PyInt(i) : i \in -1..MaxLen}

Slices == {PySlice(0, 1), PySlice(1, MaxLen)}

\* The elements of the iterables passed to extend, += and try_add_many.
BatchValues == {D1, D3, None}

RECURSIVE SeqsUpTo(_, _)
SeqsUpTo(S, n) ==
    IF n = 0 THEN {<<>>}
    ELSE LET shorter == SeqsUpTo(S, n - 1)
         IN  shorter \cup {Append(q, x) : q \in shorter, x \in S}

Iterables == {None} \cup {PyList(q) : q \in SeqsUpTo(BatchValues, MaxBatch)}

\* Descriptors for services registered more than once: another implementation
\* of ServiceA, and descriptors whose implementation cannot be told from the
\* service (its own type, or object) by type, by instance and by factory.
D6 == using_type(<<"D6">>, ServiceA, ImplB, TRANSIENT, None).value

D7 == using_type(<<"D7">>, ServiceA, ServiceA, SCOPED, None).value

an_object == PyObject(PyType("object"), "an_object")

D8 == using_instance(<<"D8">>, ServiceA, an_object, KeyA).value

keyed_factory_service_a == PyFunction("keyed_factory_service_a", <<"provider", "key">>, ServiceA)

D9 == using_factory(<<"D9">>, ServiceA, keyed_factory_service_a, SCOPED, None).value

\* A key that is not None and tests false.
KeyZero == PyInt(0)

D10 == using_type(<<"D10">>, ServiceA, ImplB, SINGLETON, KeyZero).value

D11 == using_type(<<"D11">>, ServiceA, ServiceA, SCOPED, KeyZero).value

EnumerableDescriptors == {D1, D2, D3, D5, D6, D7, D8, D9, D10, D11}

EnumerableValues == EnumerableDescriptors \cup {None, NotADescriptor}

\* The elements of the iterables passed to try_add_enumerable.
EnumerableBatchValues == {D3, D6, D7}

EnumerableIterables == {PyList(q) : q \in SeqsUpTo(EnumerableBatchValues, MaxBatch)}

\* What a caller passes to ServiceDescriptor(...): for each argument None, a
\* value of the declared type, and values that are not None and test false.
Instances == {None, instance_a, empty_instance}

ImplementationTypes == {None, ImplA}

factory_no_params == PyFunction("factory_no_params", <<>>, ImplA)

factory_three_params == PyFunction("factory_three_params", <<"a", "b", "c">>, ImplA)

not_callable == PyStr("test")

\* A factory that declares no return type.
factory_unannotated == PyFunction("factory_unannotated", <<"provider">>, None)

Factories ==
    {None, factory_a, keyed_factory_a, factory_no_params, factory_three_params,
     factory_unannotated, not_callable}

Lifetimes == ServiceLifetime \cup {None}

ServiceKeys == {None, KeyA, KeyZero}

ServiceTypes == {ServiceA, None}

\* A registration of ServiceA by a factory that declares no return type; the
\* constructor asks a factory for its parameters only.
D12 == using_factory(<<"D12">>, ServiceA, factory_unannotated, SCOPED, None).value

\* Every descriptor the constructor lets through for these arguments.
Constructed ==
    LET made == {ServiceDescriptor(<<"d">>, st, lt, inst, it, f, k) :
                     st \in ServiceTypes, lt \in Lifetimes, inst \in Instances,
                     it \in ImplementationTypes, f \in Factories, k \in ServiceKeys}
    IN  {r.value : r \in {m \in made : m.raised = ""}}

\* The provider handed to a factory.
provider == PyObject(PyType("ServiceProvider"), "provider")

\* ServiceCollection._add
_add(self, id, st, implementation, lifetime) ==
    LET descriptor ==
            IF is_type(implementation, "type")
            THEN ServiceDescriptor(id, st, lifetime, None, implementation, None, None)
            ELSE ServiceDescriptor(id, st, lifetime, None, None, implementation, None)
    IN  IF descriptor.raised # "" THEN Fail(self, descriptor.raised)
        ELSE IF append(self, descriptor.value).raised # ""
        THEN Fail(self, append(self, descriptor.value).raised)
        ELSE Done(append(self, descriptor.value).self, SelfRef)

\* ServiceCollection.add_transient
add_transient(self, st, implementation) ==
    IF Ensure_not_none(st) # "" THEN Fail(self, Ensure_not_none(st))
    ELSE _add(self, created("add_transient", st, implementation), st,
              Or(implementation, st), TRANSIENT)

\* ServiceCollection.add_scoped
add_scoped(self, st, implementation) ==
    IF Ensure_not_none(st) # "" THEN Fail(self, Ensure_not_none(st))
    ELSE _add(self, created("add_scoped", st, implementation), st,
              Or(implementation, st), SCOPED)

\* ServiceCollection.add_singleton
add_singleton(self, st, implementation) ==
    IF Ensure_not_none(st) # "" THEN Fail(self, Ensure_not_none(st))
    ELSE LET descriptor == singleton(created("add_singleton", st, implementation), st,
                                     Or(implementation, st))
         IN  IF descriptor.raised # "" THEN Fail(self, descriptor.raised)
             ELSE IF append(self, descriptor.value).raised # ""
             THEN Fail(self, append(self, descriptor.value).raised)
             ELSE Done(append(self, descriptor.value).self, SelfRef)

\* What a caller passes to add_* as service type and as implementation.
AddServices == {ServiceB, None}

AddImplementations == {None, instance_a}

(* ------------------------------ the state ----------------------------- *)

VARIABLES
    _descriptors,   \* ServiceCollection._descriptors
    _readonly,      \* ServiceCollection._readonly
    call,           \* the last call made: method name and arguments
    before,         \* the collection as that call found it
    raised,         \* the exception class that call raised, "" if it returned
    value           \* the value that call returned

vars == <<_descriptors, _readonly, call, before, raised, value>>

Self == [_descriptors |-> _descriptors, _readonly |-> _readonly]

Init ==
    /\ _descriptors = ServiceCollection._descriptors
    /\ _readonly = ServiceCollection._readonly
    /\ call = [name |-> "__init__", args |-> <<>>]
    /\ before = ServiceCollection
    /\ raised = ""
    /\ value = None

\* No call is in progress and the last outcome has been consumed.
Idle == [name |-> "", args |-> <<>>]

\* A call of method `name` with `args` whose outcome is r.  The collection is
\* used from one thread, synchronously: a call starts only after the caller
\* got the outcome of the previous one.
Called(name, args, r) ==
    /\ call = Idle
    /\ Len(r.self._descriptors) <= MaxLen
    /\ _descriptors' = r.self._descriptors
    /\ _readonly' = r.self._readonly
    /\ call' = [name |-> name, args |-> args]
    /\ before' = Self
    /\ raised' = r.raised
    /\ value' = r.value

\* The caller takes the outcome (the value, or the exception) and goes on.
Returned ==
    /\ call # Idle
    /\ call' = Idle
    /\ before' = Self
    /\ raised' = ""
    /\ value' = None
    /\ UNCHANGED <<_descriptors, _readonly>>

MakeReadonly == Called("make_readonly", <<>>, make_readonly(Self))

Length == Called("__len__", <<>>, __len__(Self))

Contains == \E v \in Values : Called("__contains__", <<v>>, __contains__(Self, v))

Iterate == Called("__iter__", <<>>, __iter__(Self))

GetItem == \E i \in Indexes \cup Slices : Called("__getitem__", <<i>>, __getitem__(Self, i))

Insert == \E i \in Indexes, v \in Values : Called("insert", <<i, v>>, insert(Self, i, v))

SetItem ==
    \/ \E i \in Indexes, v \in Values : Called("__setitem__", <<i, v>>, __setitem__(Self, i, v))
    \/ \E i \in Slices, v \in Iterables : Called("__setitem__", <<i, v>>, __setitem__(Self, i, v))

DelItem == \E i \in Indexes \cup Slices : Called("__delitem__", <<i>>, __delitem__(Self, i))

AppendValue == \E v \in Values : Called("append", <<v>>, append(Self, v))

Clear == Called("clear", <<>>, clear(Self))

Extend == \E vs \in Iterables : Called("extend", <<vs>>, extend(Self, vs))

Reverse == Called("reverse", <<>>, reverse(Self))

Pop == \E i \in Indexes : Called("pop", <<i>>, pop(Self, i))

Remove == \E v \in Values : Called("remove", <<v>>, remove(Self, v))

IAdd == \E vs \in Iterables : Called("__iadd__", <<vs>>, __iadd__(Self, vs))

TryAdd == \E v \in Values : Called("try_add", <<v>>, try_add(Self, v))

TryAddMany == \E vs \in Iterables : Called("try_add_many", <<vs>>, try_add_many(Self, vs))

TryAddTransient ==
    \E t \in Types, impl \in Implementations :
        Called("try_add_transient", <<t, impl>>, try_add_transient(Self, t, impl))

TryAddScoped ==
    \E t \in Types, impl \in Implementations :
        Called("try_add_scoped", <<t, impl>>, try_add_scoped(Self, t, impl))

TryAddSingleton ==
    \E t \in Types, impl \in Implementations :
        Called("try_add_singleton", <<t, impl>>, try_add_singleton(Self, t, impl))

Replace == \E v \in Values : Called("replace", <<v>>, replace(Self, v))

RemoveAll ==
    \/ \E t \in Types : Called("remove_all", <<t>>, remove_all(Self, <<t>>))
    \/ \E t \in Types, k \in Keys : Called("remove_all", <<t, k>>, remove_all(Self, <<t, k>>))

Next ==
    \/ Returned
    \/ MakeReadonly
    \/ Length
    \/ Contains
    \/ Iterate
    \/ GetItem
    \/ Insert
    \/ SetItem
    \/ DelItem
    \/ AppendValue
    \/ Clear
    \/ Extend
    \/ Reverse
    \/ Pop
    \/ Remove
    \/ IAdd
    \/ TryAdd
    \/ TryAddMany
    \/ Replace
    \/ RemoveAll

\* The sequence protocol with try_add, try_add_many, replace and remove_all,
\* over the descriptors callers hold.
Spec == Init /\ [][Next]_vars

\* A collection filled through the try_add family alone.
NextTryAdd ==
    \/ Returned
    \/ MakeReadonly
    \/ TryAdd
    \/ TryAddMany
    \/ TryAddTransient
    \/ TryAddScoped
    \/ TryAddSingleton

SpecTryAdd == Init /\ [][NextTryAdd]_vars

TryAddEnumerable ==
    \/ \E v \in EnumerableValues :
           Called("try_add_enumerable", <<v>>, try_add_enumerable(Self, v))
    \/ \E vs \in EnumerableIterables :
           Called("try_add_enumerable", <<vs>>, try_add_enumerable(Self, vs))

\* A collection of services with several registrations each.
NextEnumerable ==
    \/ Returned
    \/ MakeReadonly
    \/ AppendValue
    \/ TryAddEnumerable

SpecEnumerable == Init /\ [][NextEnumerable]_vars

\* A call that leaves the collection alone: of the constructor, of a class
\* method or of a method of a descriptor.
Applied(name, args, r) ==
    Called(name, args, [self |-> Self, raised |-> r.raised, value |-> r.value])

Construct ==
    \E st \in ServiceTypes, lt \in Lifetimes, inst \in Instances,
       it \in ImplementationTypes, f \in Factories, k \in ServiceKeys :
        Applied("ServiceDescriptor", <<st, lt, inst, it, f, k>>,
                ServiceDescriptor(<<"d">>, st, lt, inst, it, f, k))

Describe ==
    \E st \in ServiceTypes, impl \in (ImplementationTypes \cup Factories \cup Instances),
       lt \in Lifetimes, k \in ServiceKeys :
        Applied("describe", <<st, impl, lt, k>>, describe(<<"d">>, st, impl, lt, k))

Accessors ==
    \E d \in Constructed :
        \/ Applied("implementation_instance", <<d>>, implementation_instance(d))
        \/ Applied("implementation_type", <<d>>, implementation_type(d))
        \/ Applied("implementation_factory", <<d>>, implementation_factory(d))
        \/ Applied("keyed_implementation_instance", <<d>>, keyed_implementation_instance(d))
        \/ Applied("keyed_implementation_type", <<d>>, keyed_implementation_type(d))
        \/ Applied("keyed_implementation_factory", <<d>>, keyed_implementation_factory(d))

GetImplementationType ==
    \E d \in Constructed :
        Applied("get_implementation_type", <<d>>, get_implementation_type(d))

\* The caller invokes the factory an accessor gave it: with the provider, or
\* with the provider and the key of the descriptor.
InvokeFactory ==
    \E d \in Constructed :
        \/ /\ implementation_factory(d).value # None
           /\ Applied("implementation_factory()", <<d, provider>>,
                      invoke(implementation_factory(d).value, <<provider>>))
        \/ /\ keyed_implementation_factory(d).raised = ""
           /\ keyed_implementation_factory(d).value # None
           /\ Applied("keyed_implementation_factory()", <<d, provider, service_key(d)>>,
                      invoke(keyed_implementation_factory(d).value,
                             <<provider, service_key(d)>>))

\* str(d)
Str == \E d \in Constructed : Applied("__str__", <<d>>, __str__(d))

\* What a caller passes to describe and to the named builders.
BuilderImplementations == ImplementationTypes \cup Factories \cup Instances

Builders ==
    \E st \in ServiceTypes, impl \in BuilderImplementations :
        \/ Applied("transient", <<st, impl>>, transient(<<"d">>, st, impl))
        \/ Applied("scoped", <<st, impl>>, scoped(<<"d">>, st, impl))
        \/ Applied("singleton", <<st, impl>>, singleton(<<"d">>, st, impl))

KeyedBuilders ==
    \E st \in ServiceTypes, impl \in BuilderImplementations, k \in ServiceKeys :
        \/ Applied("keyed_transient", <<st, impl, k>>, keyed_transient(<<"d">>, st, impl, k))
        \/ Applied("keyed_scoped", <<st, impl, k>>, keyed_scoped(<<"d">>, st, impl, k))
        \/ Applied("keyed_singleton", <<st, impl, k>>, keyed_singleton(<<"d">>, st, impl, k))

\* Descriptors as such: construction, describe and the named builders, the
\* accessors.
NextDescriptor ==
    \/ Returned
    \/ Construct
    \/ Describe
    \/ Builders
    \/ KeyedBuilders
    \/ Accessors
    \/ GetImplementationType
    \/ InvokeFactory
    \/ Str

SpecDescriptor == Init /\ [][NextDescriptor]_vars

AddTransient ==
    \E st \in AddServices, impl \in AddImplementations :
        Called("add_transient", <<st, impl>>, add_transient(Self, st, impl))

AddScoped ==
    \E st \in AddServices, impl \in AddImplementations :
        Called("add_scoped", <<st, impl>>, add_scoped(Self, st, impl))

AddSingleton ==
    \E st \in AddServices, impl \in AddImplementations :
        Called("add_singleton", <<st, impl>>, add_singleton(Self, st, impl))

\* Every public operation of the collection, called once the collection is
\* read-only.
Latched ==
    /\ call = Idle
    /\ _readonly
    /\ \/ Length
       \/ Contains
       \/ Iterate
       \/ GetItem
       \/ Insert
       \/ SetItem
       \/ DelItem
       \/ AppendValue
       \/ Clear
       \/ Extend
       \/ Reverse
       \/ Pop
       \/ Remove
       \/ IAdd
       \/ TryAdd
       \/ TryAddMany
       \/ TryAddTransient
       \/ TryAddScoped
       \/ TryAddSingleton
       \/ TryAddEnumerable
       \/ Replace
       \/ RemoveAll
       \/ AddTransient
       \/ AddScoped
       \/ AddSingleton

\* The registration phase: the caller fills the collection with append and
\* add_*.
Registering ==
    /\ call = Idle
    /\ ~_readonly
    /\ \/ AppendValue
       \/ AddTransient
       \/ AddScoped
       \/ AddSingleton

\* A collection that is filled, made read-only and then used through every
\* public operation.
NextPublic ==
    \/ Returned
    \/ MakeReadonly
    \/ Registering
    \/ Latched

SpecPublic == Init /\ [][NextPublic]_vars

\* A collection filled through try_add, its variants and try_add_enumerable.
NextAppending ==
    \/ Returned
    \/ MakeReadonly
    \/ TryAdd
    \/ TryAddMany
    \/ TryAddTransient
    \/ TryAddScoped
    \/ TryAddSingleton
    \/ TryAddEnumerable

SpecAppending == Init /\ [][NextAppending]_vars

AppendUnannotated == Called("append", <<D12>>, append(Self, D12))

\* A collection of services with several registrations each, one of them by
\* a factory without a declared return type.
NextUnannotated ==
    \/ Returned
    \/ MakeReadonly
    \/ AppendValue
    \/ AppendUnannotated
    \/ TryAddEnumerable

SpecUnannotated == Init /\ [][NextUnannotated]_vars

\* The operations that take one element, on one collection.
NextElements ==
    \/ Returned
    \/ MakeReadonly
    \/ Insert
    \/ SetItem
    \/ AppendValue
    \/ Remove
    \/ TryAdd
    \/ TryAddEnumerable
    \/ Replace

SpecElements == Init /\ [][NextElements]_vars

(* ------------------------------- claims ------------------------------- *)

\* The last call was made on a read-only (resp. mutable) collection.
OnReadonly(names) == call.name \in names /\ before._readonly

OnMutable(names) == call.name \in names /\ ~before._readonly

PrimitiveMutators ==
    {"insert", "__setitem__", "__delitem__", "append", "clear", "extend",
     "reverse", "pop", "remove", "__iadd__"}

\* The entries of s registered for (service type t, key k).
Registered(s, t, k) == {i \in 1..Len(s) : s[i]._service_type = t /\ s[i]._service_key = k}

\* C1: on a read-only collection each of insert, __setitem__, __delitem__,
\* append, clear, extend, reverse, pop, remove and __iadd__ raises RuntimeError
\* whatever its arguments and leaves the descriptor sequence as it was, while
\* len, indexing, `in` and iteration succeed and give the contents unchanged.
C1_ReadonlyPrimitivesRaise ==
    /\ OnReadonly(PrimitiveMutators) =>
           /\ raised = "RuntimeError"
           /\ _descriptors = before._descriptors
           /\ _readonly
    /\ OnReadonly({"__len__"}) =>
           /\ raised = ""
           /\ value = PyInt(Len(before._descriptors))
           /\ _descriptors = before._descriptors
    /\ OnReadonly({"__iter__"}) =>
           /\ raised = ""
           /\ value = PyList(before._descriptors)
           /\ _descriptors = before._descriptors
    /\ (OnReadonly({"__getitem__"}) /\ call.args[1].kind = "int"
            /\ call.args[1].v >= 0 /\ call.args[1].v < Len(before._descriptors)) =>
           /\ raised = ""
           /\ value = before._descriptors[call.args[1].v + 1]
           /\ _descriptors = before._descriptors
    /\ (OnReadonly({"__contains__"}) /\ call.args[1] \in Descriptors) =>
           /\ raised = ""
           /\ value = PyBool(\E i \in 1..Len(before._descriptors) :
                                 before._descriptors[i] = call.args[1])
           /\ _descriptors = before._descriptors

\* C1 witness: pop(0) of a read-only collection that holds entries raised
\* RuntimeError.
C1_Witness ==
    /\ OnReadonly({"pop"})
    /\ call.args = <<PyInt(0)>>
    /\ Len(before._descriptors) = 2
    /\ raised = "RuntimeError"

\* C2: a new collection is empty and mutable; make_readonly() sets the flag;
\* once set the flag stays set under every call, and a second make_readonly()
\* changes nothing.
C2_ReadonlyLatch ==
    [][/\ call.name = "__init__" => (_descriptors = <<>> /\ ~_readonly)
       /\ _readonly => _readonly'
       /\ call'.name = "make_readonly" =>
              /\ _readonly'
              /\ raised' = ""
              /\ _descriptors' = _descriptors]_vars

\* C2 witness: a second make_readonly() on a collection already read-only.
C2_Witness ==
    /\ OnReadonly({"make_readonly"})
    /\ _readonly
    /\ _descriptors # <<>>

DomainMutators ==
    {"try_add", "try_add_many", "try_add_transient", "try_add_scoped",
     "try_add_singleton", "replace", "remove_all"}

\* C3: on a read-only collection every mutating entry point (try_add,
\* try_add_many, try_add_transient/scoped/singleton, replace, remove_all, ...)
\* fails with the read-only RuntimeError, before any validation of its argument
\* and whether or not a matching entry exists.
C3_ReadonlyDomainMutatorsRaise ==
    OnReadonly(DomainMutators) => raised = "RuntimeError"

\* C4: try_add(d) on a mutable collection appends d as the last element when
\* no entry has both d's service_type and d's service_key, and otherwise leaves
\* the collection unchanged; an entry that differs from d in service_type or in
\* service_key does not block the add.
C4_TryAdd ==
    (OnMutable({"try_add"}) /\ call.args[1] \in Descriptors) =>
        LET d == call.args[1]
            s == before._descriptors
        IN  /\ raised = ""
            /\ _descriptors =
                   IF Registered(s, d._service_type, d._service_key) # {}
                   THEN s ELSE Append(s, d)

\* C4 witness: ServiceA under key "A" was added to a collection that holds
\* ServiceA unkeyed and ServiceA under key "B".
C4_Witness ==
    /\ OnMutable({"try_add"})
    /\ call.args = <<D3>>
    /\ before._descriptors = <<D1, D5>>
    /\ _descriptors = <<D1, D5, D3>>

\* C5: from an empty collection, after any sequence of try_add, try_add_many
\* and try_add_transient/scoped/singleton calls no two entries share the same
\* (service_type, service_key) pair.
C5_TryAddUnique ==
    \A i, j \in 1..Len(_descriptors) :
        (/\ _descriptors[i]._service_type = _descriptors[j]._service_type
         /\ _descriptors[i]._service_key = _descriptors[j]._service_key) => i = j

\* C5 witness: try_add_scoped found its service type registered by an earlier
\* call, under a key too, and left the collection alone.
C5_Witness ==
    /\ OnMutable({"try_add_scoped"})
    /\ call.args = <<ServiceA, None>>
    /\ raised = ""
    /\ Len(_descriptors) = MaxLen
    /\ _descriptors = before._descriptors
    /\ Registered(_descriptors, ServiceA, None) # {}
    /\ Registered(_descriptors, ServiceA, KeyA) # {}

\* C6: try_add is idempotent: in every mutable state, for every descriptor d,
\* try_add(d) twice leaves what try_add(d) once leaves; on an empty collection
\* that is the one-element sequence <<d>>.
C6_TryAddIdempotent ==
    ~_readonly =>
        \A d \in Descriptors :
            LET once == try_add(Self, d)
                twice == try_add(once.self, d)
            IN  /\ once.raised = ""
                /\ twice.raised = ""
                /\ twice.self = once.self
                /\ _descriptors = <<>> => once.self._descriptors = <<d>>

\* C6 witness: the second try_add(D2) in a row, after the first one added D2
\* to an empty collection.
C6_Witness ==
    /\ OnMutable({"try_add"})
    /\ call.args = <<D2>>
    /\ before._descriptors = <<D2>>
    /\ raised = ""
    /\ _descriptors = <<D2>>

\* s without its element at 1-based position k.
Without(s, k) == [i \in 1..(Len(s) - 1) |-> IF i < k THEN s[i] ELSE s[i + 1]]

\* C7: replace(d) on a mutable collection deletes only the first entry whose
\* service_type and service_key both equal d's, if there is one, then appends d
\* as the last element and returns the collection; every other entry stays, in
\* its previous relative order.
C7_Replace ==
    (OnMutable({"replace"}) /\ call.args[1] \in Descriptors) =>
        LET d == call.args[1]
            s == before._descriptors
            found == Registered(s, d._service_type, d._service_key)
            first == CHOOSE i \in found : \A j \in found : i <= j
        IN  /\ raised = ""
            /\ value = SelfRef
            /\ _descriptors = Append(IF found = {} THEN s ELSE Without(s, first), d)

\* C7 witness: replace(D1) on a collection with two (ServiceA, None) entries
\* and a keyed ServiceA entry between them removed the first only.
C7_Witness ==
    /\ OnMutable({"replace"})
    /\ call.args = <<D1>>
    /\ before._descriptors = <<D2, D3, D1>>
    /\ _descriptors = <<D3, D1, D1>>

\* C8 as stated: after replace(d) on any mutable collection exactly one entry
\* has d's (service_type, service_key) pair and that entry is d, however the
\* collection was built; the collection grows by one only when no entry had
\* the pair.
C8_ReplaceExactlyOne ==
    (OnMutable({"replace"}) /\ call.args[1] \in Descriptors) =>
        LET d == call.args[1]
            s == before._descriptors
            now == Registered(_descriptors, d._service_type, d._service_key)
        IN  /\ raised = ""
            /\ Cardinality(now) = 1
            /\ \A i \in now : _descriptors[i] = d
            /\ Len(_descriptors) =
                   IF Registered(s, d._service_type, d._service_key) = {}
                   THEN Len(s) + 1 ELSE Len(s)

\* C8 amended: after replace(d) on a mutable collection that held n entries
\* with d's pair, max(n, 1) entries have the pair and the last element is d; so
\* exactly one entry has the pair, and it is d, when n <= 1.  Entries with
\* another pair are untouched, and the collection grows by one only when n = 0:
\* replace for key K on an empty collection gives length 1, replace for another
\* key K2 then gives length 2, and replace for K again keeps length 2, the new
\* K entry now being last.
C8_ReplaceOnePerPriorEntry ==
    (OnMutable({"replace"}) /\ call.args[1] \in Descriptors) =>
        LET d == call.args[1]
            s == before._descriptors
            was == Registered(s, d._service_type, d._service_key)
            now == Registered(_descriptors, d._service_type, d._service_key)
            other(e) == ~same_registration(e, d)
        IN  /\ raised = ""
            /\ Cardinality(now) = IF was = {} THEN 1 ELSE Cardinality(was)
            /\ _descriptors[Len(_descriptors)] = d
            /\ Cardinality(was) <= 1 => now = {Len(_descriptors)}
            /\ SelectSeq(_descriptors, other) = SelectSeq(s, other)
            /\ Len(_descriptors) = IF was = {} THEN Len(s) + 1 ELSE Len(s)

\* C8 witness: the third replace of the scenario: the collection holds the
\* key "A" and key "B" entries of ServiceA, and replace for key "A" leaves two
\* elements with the key "A" entry last.
C8_Witness ==
    /\ OnMutable({"replace"})
    /\ call.args = <<D3>>
    /\ before._descriptors = <<D3, D5>>
    /\ _descriptors = <<D5, D3>>

\* C9: remove_all(T) without a key on a mutable collection removes every entry
\* whose service_type is T and whose service_key is None, however many there
\* are and wherever they sit; the same unkeyed descriptor three times in a row
\* leaves an empty collection.
C9_RemoveAllUnkeyed ==
    (OnMutable({"remove_all"}) /\ Len(call.args) = 1 /\ call.args[1] # None) =>
        /\ raised = ""
        /\ Registered(_descriptors, call.args[1], None) = {}

\* C10: remove_all(T, key) with a key other than None is accepted and removes
\* every entry of type T under that key; such entries survive remove_all(T)
\* without a key.
C10_RemoveAllKeyed ==
    /\ (OnMutable({"remove_all"}) /\ Len(call.args) = 2
            /\ call.args[1] # None /\ call.args[2] # None) =>
           /\ raised = ""
           /\ Registered(_descriptors, call.args[1], call.args[2]) = {}
    /\ (OnMutable({"remove_all"}) /\ Len(call.args) = 1 /\ call.args[1] # None) =>
           \A k \in Keys \ {None} :
               SelectSeq(_descriptors, LAMBDA e : e._service_type = call.args[1] /\ e._service_key = k)
               = SelectSeq(before._descriptors, LAMBDA e : e._service_type = call.args[1] /\ e._service_key = k)

\* C11: remove_all(T) never removes or reorders an entry whose service_type
\* differs from T or whose service_key is not None; after try_add of
\* (ServiceA, Singleton, no key) and of (ServiceA, Singleton, key "A") the
\* collection has length 2, and remove_all(ServiceA) leaves the key "A" entry
\* alone.
C11_RemoveAllFrame ==
    /\ (call.name = "remove_all" /\ Len(call.args) = 1) =>
           LET kept(e) == e._service_type # call.args[1] \/ e._service_key # None
           IN  SelectSeq(_descriptors, kept) = SelectSeq(before._descriptors, kept)
    /\ (OnMutable({"try_add"}) /\ call.args = <<D3>> /\ before._descriptors = <<D1>>) =>
           _descriptors = <<D1, D3>>
    /\ (OnMutable({"remove_all"}) /\ call.args = <<ServiceA>>
            /\ before._descriptors = <<D1, D3>>) =>
           (raised = "" /\ _descriptors = <<D3>>)

\* C11 witness: remove_all(ServiceA) took the unkeyed ServiceA entry from
\* between a ServiceB entry and a keyed ServiceA entry.
C11_Witness ==
    /\ OnMutable({"remove_all"})
    /\ call.args = <<ServiceA>>
    /\ before._descriptors = <<D4, D1, D3>>
    /\ _descriptors = <<D4, D3>>

\* The implementation type a descriptor stands for: the explicit type, else
\* the type of the instance, else the return type the factory declares.
Resolved(d) ==
    IF d._implementation_type # None THEN d._implementation_type
    ELSE IF d._implementation_instance # None THEN type(d._implementation_instance)
    ELSE IF d._implementation_factory.kind = "partial"
    THEN d._implementation_factory.func.returns
    ELSE d._implementation_factory.returns

\* The descriptors try_add_enumerable is to reject.
Rejected(d) == Resolved(d) = PyType("object") \/ Resolved(d) = d._service_type

\* s after the enumerable rule has been applied to d.
EnumerableRule(s, d) ==
    IF \E i \in 1..Len(s) : /\ s[i]._service_type = d._service_type
                            /\ Resolved(s[i]) = Resolved(d)
                            /\ s[i]._service_key = d._service_key
    THEN s ELSE Append(s, d)

\* s after the rule has been applied to ds[i], ds[i + 1], ... in order.
RECURSIVE EnumerableRuleEach(_, _, _)
EnumerableRuleEach(s, ds, i) ==
    IF i > Len(ds) THEN s ELSE EnumerableRuleEach(EnumerableRule(s, ds[i]), ds, i + 1)

\* C12: try_add_enumerable(d) on a mutable collection appends d when no entry
\* has d's service_type, d's resolved implementation type and d's service_key,
\* and otherwise leaves the collection unchanged; given an iterable it applies
\* the rule to each element in order.
C12_TryAddEnumerable ==
    /\ (OnMutable({"try_add_enumerable"}) /\ call.args[1] \in EnumerableDescriptors
            /\ ~Rejected(call.args[1])) =>
           /\ raised = ""
           /\ _descriptors = EnumerableRule(before._descriptors, call.args[1])
    /\ (OnMutable({"try_add_enumerable"}) /\ call.args[1] \in EnumerableIterables
            /\ \A i \in 1..Len(call.args[1].v) : ~Rejected(call.args[1].v[i])) =>
           /\ raised = ""
           /\ _descriptors = EnumerableRuleEach(before._descriptors, call.args[1].v, 1)

\* The 1-based position of the first element of ds to reject, 0 when none.
FirstRejected(ds) ==
    IF \E i \in 1..Len(ds) : Rejected(ds[i])
    THEN CHOOSE i \in 1..Len(ds) : Rejected(ds[i]) /\ \A j \in 1..(i - 1) : ~Rejected(ds[j])
    ELSE 0

\* C13: try_add_enumerable raises ValueError for a descriptor whose resolved
\* implementation type is its own service_type or object, be it type-,
\* instance- or factory-based, keyed or not; the descriptor is not added, and
\* the elements of an iterable that precede it stay added.
C13_TryAddEnumerableRejects ==
    /\ (call.name = "try_add_enumerable" /\ call.args[1] \in EnumerableDescriptors
            /\ Rejected(call.args[1])) =>
           /\ raised = "ValueError"
           /\ _descriptors = before._descriptors
    /\ (OnMutable({"try_add_enumerable"}) /\ call.args[1] \in EnumerableIterables
            /\ FirstRejected(call.args[1].v) # 0) =>
           LET ds == call.args[1].v
               k == FirstRejected(ds)
           IN  /\ raised = "ValueError"
               /\ _descriptors =
                      EnumerableRuleEach(before._descriptors, SubSeq(ds, 1, k - 1), 1)

\* C13 witness: of the iterable [D6, D7] the first element was added to the
\* empty collection before the second, ServiceA implemented by ServiceA, was
\* rejected.
C13_Witness ==
    /\ OnMutable({"try_add_enumerable"})
    /\ call.args = <<PyList(<<D6, D7>>)>>
    /\ before._descriptors = <<>>
    /\ raised = "ValueError"
    /\ _descriptors = <<D6>>

\* The last call was ServiceDescriptor(service_type, lifetime, instance=...,
\* implementation_type=..., factory=..., service_key=...).
Constructing == call.name = "ServiceDescriptor"

\* How many of the three construction strategies are not None in d.
Strategies(inst, it, f) == Cardinality({i \in 1..3 : <<inst, it, f>>[i] # None})

\* C14: for every combination of instance, implementation_type and factory,
\* each None or any other value whatever its truth value, construction
\* succeeds only when exactly one of the three is supplied and raises
\* ValueError when none or more than one is; a constructed descriptor stores
\* exactly one construction strategy that is not None.
C14_ExactlyOneStrategy ==
    Constructing =>
        LET supplied == Strategies(call.args[3], call.args[4], call.args[5])
        IN  /\ supplied # 1 => raised = "ValueError"
            /\ raised = "" =>
                   /\ supplied = 1
                   /\ Strategies(value._implementation_instance,
                                 value._implementation_type,
                                 value._implementation_factory) = 1

\* C15: with an instance an omitted lifetime becomes Singleton and an explicit
\* Scoped or Transient raises ValueError, so a descriptor with an instance
\* reports Singleton; without an instance an omitted lifetime raises ValueError
\* and an explicit lifetime is stored unchanged.
C15_LifetimeRule ==
    Constructing =>
        LET st == call.args[1]
            lt == call.args[2]
            inst == call.args[3]
            alone == call.args[4] = None /\ call.args[5] = None
        IN  /\ (inst # None /\ lt \in {SCOPED, TRANSIENT}) => raised = "ValueError"
            /\ (inst # None /\ raised = "") => value._lifetime = SINGLETON
            /\ (inst # None /\ lt = None /\ alone /\ st # None) =>
                   (raised = "" /\ value._lifetime = SINGLETON)
            /\ (inst = None /\ lt = None) => raised = "ValueError"
            /\ (inst = None /\ raised = "") => value._lifetime = lt

\* C16: construction with a factory raises ValueError when the factory takes
\* one parameter and the service_key is any value other than None, and when it
\* takes a number of parameters other than one or two; a one-parameter factory
\* is accepted for an unkeyed descriptor only, a two-parameter factory for
\* keyed and unkeyed descriptors.
C16_FactoryArity ==
    (Constructing /\ call.args[5].kind = "function") =>
        LET arity == Len(call.args[5].params)
            keyed == call.args[6] # None
            rest == /\ call.args[1] # None /\ call.args[2] # None
                    /\ call.args[3] = None /\ call.args[4] = None
        IN  /\ (arity = 1 /\ keyed) => raised = "ValueError"
            /\ arity \notin {1, 2} => raised = "ValueError"
            /\ (rest /\ arity = 1 /\ ~keyed) => raised = ""
            /\ (rest /\ arity = 2) => raised = ""

\* C17: a two-parameter factory given to an unkeyed descriptor is stored
\* normalized: implementation_factory called with the provider alone invokes
\* the original factory once with that provider and None for the key; given to
\* a keyed descriptor it is stored unchanged and is what
\* keyed_implementation_factory returns.
C17_FactoryNormalized ==
    /\ (Constructing /\ raised = "" /\ call.args[5].kind = "function"
            /\ Len(call.args[5].params) = 2) =>
           IF call.args[6] = None
           THEN /\ implementation_factory(value).value # None
                /\ invoke(implementation_factory(value).value, <<provider>>)
                       = Return([kind |-> "invocation", func |-> call.args[5].name,
                                 args |-> <<provider, None>>])
           ELSE /\ value._implementation_factory = call.args[5]
                /\ keyed_implementation_factory(value) = Return(call.args[5])
    /\ (call.name = "implementation_factory()"
            /\ call.args[1]._implementation_factory.kind = "partial") =>
           /\ raised = ""
           /\ value = [kind |-> "invocation",
                       func |-> call.args[1]._implementation_factory.func.name,
                       args |-> <<call.args[2], None>>]

\* The strategy value a descriptor stores under an accessor's name.
Stored(d, name) ==
    CASE name \in {"implementation_instance", "keyed_implementation_instance"} ->
             d._implementation_instance
      [] name \in {"implementation_type", "keyed_implementation_type"} ->
             d._implementation_type
      [] name \in {"implementation_factory", "keyed_implementation_factory"} ->
             d._implementation_factory

PlainAccessors ==
    {"implementation_instance", "implementation_type", "implementation_factory"}

KeyedAccessors ==
    {"keyed_implementation_instance", "keyed_implementation_type",
     "keyed_implementation_factory"}

\* C18: a descriptor is keyed exactly when its service_key is not None.  On an
\* unkeyed descriptor the plain accessors return the stored value and each
\* keyed_* accessor raises RuntimeError; on a keyed descriptor every plain
\* accessor returns None and the keyed_* accessors return the stored value.
C18_AccessorsByKeyedness ==
    /\ \A d \in Constructed : is_keyed_service(d) <=> d._service_key # None
    /\ call.name \in PlainAccessors =>
           /\ raised = ""
           /\ value = IF call.args[1]._service_key = None
                      THEN Stored(call.args[1], call.name) ELSE None
    /\ call.name \in KeyedAccessors =>
           IF call.args[1]._service_key = None
           THEN raised = "RuntimeError"
           ELSE raised = "" /\ value = Stored(call.args[1], call.name)

\* C18 witness: keyed_implementation_type of a descriptor whose key is 0
\* returned the implementation type.
C18_Witness ==
    /\ call.name = "keyed_implementation_type"
    /\ call.args[1]._service_key = KeyZero
    /\ raised = ""
    /\ value = ImplA

\* C19: for every constructed descriptor, unkeyed or keyed with any key other
\* than None, get_implementation_type() returns the explicit implementation
\* type if one was given, the type of the instance if an instance was given,
\* and the declared return type of the factory if a factory was given, also
\* for a two-parameter factory on an unkeyed descriptor; it raises only when
\* none of these can be determined.
C19_GetImplementationType ==
    (/\ call.name = "get_implementation_type"
     /\ Strategies(call.args[1]._implementation_instance,
                   call.args[1]._implementation_type,
                   call.args[1]._implementation_factory) = 1) =>
        LET d == call.args[1]
        IN  IF Resolved(d) = None
            THEN raised # ""
            ELSE raised = "" /\ value = Resolved(d)

\* C20: describe(service_type, implementation, lifetime, service_key) returns
\* a type-based descriptor when implementation is a type, a factory-based one
\* when it is another callable, and raises, returning no value, when it is
\* neither; in the accepted cases the outcome is the validating constructor's,
\* and the descriptor carries the service_type, lifetime and service_key given.
C20_Describe ==
    call.name = "describe" =>
        LET st == call.args[1]
            impl == call.args[2]
            lt == call.args[3]
            k == call.args[4]
            carried == /\ value._service_type = st
                       /\ value._lifetime = lt
                       /\ value._service_key = k
        IN  /\ impl.kind = "type" =>
                   /\ [raised |-> raised, value |-> value]
                          = ServiceDescriptor(<<"d">>, st, lt, None, impl, None, k)
                   /\ raised = "" => (carried /\ value._implementation_type = impl
                                      /\ value._implementation_instance = None
                                      /\ value._implementation_factory = None)
            /\ (impl.kind # "type" /\ callable(impl)) =>
                   /\ [raised |-> raised, value |-> value]
                          = ServiceDescriptor(<<"d">>, st, lt, None, None, impl, k)
                   /\ raised = "" => (carried /\ value._implementation_factory # None
                                      /\ value._implementation_instance = None
                                      /\ value._implementation_type = None)
            /\ ~callable(impl) => raised # ""

\* The lifetime a named builder stands for.
BuilderLifetime(name) ==
    CASE name \in {"transient", "keyed_transient"} -> TRANSIENT
      [] name \in {"scoped", "keyed_scoped"} -> SCOPED
      [] name \in {"singleton", "keyed_singleton"} -> SINGLETON

BuilderNames ==
    {"transient", "keyed_transient", "scoped", "keyed_scoped", "singleton",
     "keyed_singleton"}

\* C21: transient/keyed_transient, scoped/keyed_scoped and
\* singleton/keyed_singleton return a descriptor of lifetime Transient, Scoped
\* and Singleton; singleton and keyed_singleton hand an implementation that is
\* neither a type nor callable to using_instance and a type or a callable to
\* describe.
C21_Builders ==
    /\ (call.name \in BuilderNames /\ raised = "") =>
           /\ value.kind = "ServiceDescriptor"
           /\ value._lifetime = BuilderLifetime(call.name)
    /\ call.name \in {"singleton", "keyed_singleton"} =>
           LET st == call.args[1]
               impl == call.args[2]
               k == IF call.name = "singleton" THEN None ELSE call.args[3]
           IN  [raised |-> raised, value |-> value] =
                   IF impl.kind # "type" /\ ~callable(impl)
                   THEN using_instance(<<"d">>, st, impl, k)
                   ELSE describe(<<"d">>, st, impl, SINGLETON, k)

RECURSIVE TryAddInTurn(_, _, _)
TryAddInTurn(self, ds, i) ==
    IF i > Len(ds) THEN [self |-> self, raised |-> ""]
    ELSE IF try_add(self, ds[i]).raised # ""
    THEN [self |-> self, raised |-> try_add(self, ds[i]).raised]
    ELSE TryAddInTurn(try_add(self, ds[i]).self, ds, i + 1)

\* C23: try_add_many(ds) on a mutable collection leaves the collection that
\* try_add called on each element of ds in order leaves, a later element with
\* the pair of an earlier one being dropped; when an element makes try_add
\* raise, the elements before it stay added and none after it is processed.
C23_TryAddManyIsTryAddInTurn ==
    (OnMutable({"try_add_many"}) /\ call.args[1].kind = "list") =>
        LET ds == call.args[1].v
            expected == TryAddInTurn(before, ds, 1)
        IN  /\ raised = expected.raised
            /\ _descriptors = expected.self._descriptors
            /\ \A i \in 1..Len(ds) :
                   (ds[i] = None /\ \A j \in 1..(i - 1) : ds[j] # None) =>
                       /\ raised = "ValueError"
                       /\ \A j \in 1..(i - 1) :
                              Registered(_descriptors, ds[j]._service_type,
                                         ds[j]._service_key) # {}
                       /\ Len(_descriptors) <= Len(before._descriptors) + i - 1
            /\ (\A i \in 1..Len(ds) : ds[i] # None) =>
                   /\ raised = ""
                   /\ \A i \in 1..Len(ds) :
                          Cardinality(Registered(_descriptors, ds[i]._service_type,
                                                 ds[i]._service_key))
                              = IF Registered(before._descriptors, ds[i]._service_type,
                                              ds[i]._service_key) = {}
                                THEN 1
                                ELSE Cardinality(Registered(before._descriptors,
                                                            ds[i]._service_type,
                                                            ds[i]._service_key))

\* C23 witness: of [D1, None] the first element was added to the empty
\* collection before try_add raised for the second.
C23_Witness ==
    /\ OnMutable({"try_add_many"})
    /\ call.args = <<PyList(<<D1, None>>)>>
    /\ before._descriptors = <<>>
    /\ raised = "ValueError"
    /\ _descriptors = <<D1>>

TryAddLifetime(name) ==
    CASE name = "try_add_transient" -> TRANSIENT
      [] name = "try_add_scoped" -> SCOPED
      [] name = "try_add_singleton" -> SINGLETON

\* C24: try_add_transient, try_add_scoped and try_add_singleton called with a
\* service type and no implementation, a type or a factory (try_add_singleton
\* also with an instance) leave a mutable collection unchanged when the pair
\* (service, None) is registered, whatever the entry registered for it, and
\* otherwise append one unkeyed descriptor of the named lifetime for the
\* service, with the service type itself as implementation type when no
\* implementation is given.
C24_TryAddLifetimes ==
    (/\ OnMutable({"try_add_transient", "try_add_scoped", "try_add_singleton"})
     /\ is_type(call.args[1], "type")
     /\ \/ call.args[2] = None
        \/ callable(call.args[2])
        \/ call.name = "try_add_singleton") =>
        LET service == call.args[1]
            implementation == call.args[2]
            s == before._descriptors
        IN  /\ raised = ""
            /\ IF Registered(s, service, None) # {}
               THEN _descriptors = s
               ELSE /\ Len(_descriptors) = Len(s) + 1
                    /\ SubSeq(_descriptors, 1, Len(s)) = s
                    /\ LET d == _descriptors[Len(s) + 1]
                       IN  /\ d.kind = "ServiceDescriptor"
                           /\ d._service_type = service
                           /\ d._service_key = None
                           /\ d._lifetime = TryAddLifetime(call.name)
                           /\ Strategies(d._implementation_instance, d._implementation_type,
                                         d._implementation_factory) = 1
                           /\ implementation = None => d._implementation_type = service
                           /\ is_type(implementation, "type") =>
                                  d._implementation_type = implementation
                           /\ is_type(implementation, "function") =>
                                  d._implementation_factory = implementation

\* C24 witness: try_add_transient(ServiceA) left the collection holding the
\* singleton registration D1 of ServiceA as it was.
C24_Witness ==
    /\ OnMutable({"try_add_transient"})
    /\ call.args = <<ServiceA, None>>
    /\ before._descriptors = <<D1>>
    /\ raised = ""
    /\ _descriptors = <<D1>>

\* try_add_scoped(ServiceB) appended a scoped descriptor of ServiceB
\* implemented by ServiceB after D1.
C24_Appended ==
    /\ OnMutable({"try_add_scoped"})
    /\ call.args = <<ServiceB, None>>
    /\ before._descriptors = <<D1>>
    /\ Len(_descriptors) = 2
    /\ _descriptors[2]._implementation_type = ServiceB

\* C25: on a mutable collection extend(values) and `collection += values` with
\* an iterable of descriptors succeed and append the values in their order
\* after the existing entries, duplicates included; with a value that is no
\* descriptor the call raises and adds nothing.
C25_ExtendAppends ==
    (OnMutable({"extend", "__iadd__"}) /\ call.args[1].kind = "list") =>
        LET values == call.args[1].v
        IN  IF \A i \in 1..Len(values) : values[i].kind = "ServiceDescriptor"
            THEN /\ raised = ""
                 /\ _descriptors = before._descriptors \o values
            ELSE /\ raised # ""
                 /\ _descriptors = before._descriptors

\* The strategies d stores, each with the label str(d) gives it.
StoredStrategies(d) ==
    {p \in {<<"implementation_type", d._implementation_type>>,
            <<"implementation_factory", d._implementation_factory>>,
            <<"implementation_instance", d._implementation_instance>>} : p[2] # None}

\* C26: str(d) succeeds for every constructed descriptor d, an unkeyed one
\* built from a two-parameter factory included, and renders the name of the
\* service type and of the lifetime, then the service key only when d is
\* keyed, then exactly one of implementation_type, implementation_factory and
\* implementation_instance: the strategy d stores.
C26_Str ==
    call.name = "__str__" =>
        LET d == call.args[1]
            head == <<(<<"service_type", d._service_type>>), (<<"lifetime", d._lifetime>>)>>
                    \o (IF d._service_key # None
                        THEN <<(<<"service_key", d._service_key>>)>>
                        ELSE <<>>)
        IN  /\ raised = ""
            /\ value.kind = "formatted"
            /\ \E p \in StoredStrategies(d) : value.fields = head \o <<p>>

\* C27: once make_readonly() has been called, the descriptor sequence (its
\* elements and their order) is the same in every later state, under every
\* public operation of the collection, primitive or domain-specific, whether
\* the call raises or returns.
C27_ReadonlyFrozen ==
    [][_readonly => (_readonly' /\ _descriptors' = _descriptors)]_vars

\* C27 witness: add_transient was called on a read-only collection that holds
\* descriptors.
C27_Witness ==
    /\ OnReadonly({"add_transient"})
    /\ call.args = <<ServiceB, None>>
    /\ raised = "RuntimeError"
    /\ _readonly
    /\ Len(_descriptors) = 2
    /\ _descriptors = before._descriptors

TryAddFamily ==
    {"try_add", "try_add_many", "try_add_transient", "try_add_scoped",
     "try_add_singleton", "try_add_enumerable"}

\* C28: try_add, try_add_many, try_add_transient/scoped/singleton and
\* try_add_enumerable only append: after such a call, whether it returned or
\* raised, the previous contents are a prefix of the new contents; no entry
\* was removed, replaced or moved.
C28_OnlyAppend ==
    call.name \in TryAddFamily =>
        /\ Len(before._descriptors) <= Len(_descriptors)
        /\ SubSeq(_descriptors, 1, Len(before._descriptors)) = before._descriptors

\* C28 witness: try_add_enumerable([D6, D7]) appended D6 after D1 and then
\* raised for D7.
C28_Witness ==
    /\ OnMutable({"try_add_enumerable"})
    /\ call.args = <<PyList(<<D6, D7>>)>>
    /\ before._descriptors = <<D1>>
    /\ raised # ""
    /\ _descriptors = <<D1, D6>>

\* No two entries of s registered for (service type t, no key) are neighbours.
NoneAdjacent(s, t) ==
    \A i \in 1..(Len(s) - 1) : ~(i \in Registered(s, t, None) /\ (i + 1) \in Registered(s, t, None))

\* C29: remove_all(T) deletes while it iterates over the same list, in one
\* pass from the front: on a mutable collection the call returns without an
\* exception, it never deletes or moves an entry that does not match
\* (T, key None), and when no two unkeyed entries of type T are adjacent it
\* removes all of them and nothing else.
C29_RemoveAllOnePass ==
    (OnMutable({"remove_all"}) /\ Len(call.args) = 1 /\ call.args[1] # None) =>
        LET t == call.args[1]
            s == before._descriptors
            kept(e) == e._service_type # t \/ e._service_key # None
        IN  /\ raised = ""
            /\ SelectSeq(_descriptors, kept) = SelectSeq(s, kept)
            /\ Len(_descriptors) <= Len(s)
            /\ NoneAdjacent(s, t) => _descriptors = SelectSeq(s, kept)

\* C29 witness: remove_all(ServiceA) took both unkeyed ServiceA entries, which
\* a ServiceB entry separates.
C29_Witness ==
    /\ OnMutable({"remove_all"})
    /\ call.args = <<ServiceA>>
    /\ before._descriptors = <<D1, D4, D2>>
    /\ raised = ""
    /\ _descriptors = <<D4>>

\* C30: on a mutable collection try_add_enumerable(d), for a descriptor d
\* whose implementation type can be resolved and is neither object nor
\* d.service_type, never raises, whatever the collection holds, entries of
\* d's service type with a factory without a declared return type included:
\* d is appended or the collection is unchanged.
C30_TryAddEnumerableNeverRaises ==
    (/\ OnMutable({"try_add_enumerable"})
     /\ call.args[1] \in EnumerableDescriptors
     /\ get_implementation_type(call.args[1]).raised = ""
     /\ ~Rejected(call.args[1])) =>
        /\ raised = ""
        /\ \/ _descriptors = Append(before._descriptors, call.args[1])
           \/ _descriptors = before._descriptors

====
